---- MODULE Spec2Model ----
(***************************************************************************)
(* Moonfire venture-capital portfolio model: the command-line validation   *)
(* of src/src/utilities.c and the trial loop, statistics, output and       *)
(* persistence steps of main() in src/src/main.c.                          *)
(*                                                                         *)
(* A C double is modelled as an exact rational [num, den] in lowest terms  *)
(* (rounding is not modelled).  Argument texts are strings looked up in    *)
(* literal tables, so that parsing is a real partial conversion.           *)
(***************************************************************************)
EXTENDS Integers, Sequences, FiniteSets, TLC

(***************************************************************************)
(* Bounds of the model.                                                    *)
(***************************************************************************)
\* longest command line made of value options (validation-focused runs)
MaxValueArgs == 2
\* longest command line made of mode options (run-focused runs)
MaxModeArgs == 4

(***************************************************************************)
(* Exact rationals standing for C doubles.                                 *)
(***************************************************************************)
Abs(n) == IF n < 0 THEN -n ELSE n

RECURSIVE GCD(_, _)
GCD(a, b) == IF b = 0 THEN a ELSE GCD(b, a % b)

Rat(n, d) ==
    LET s == IF d < 0 THEN -1 ELSE 1
        g == GCD(Abs(n), Abs(d))
    IN  [num |-> (s * n) \div g, den |-> (s * d) \div g]

RAdd(a, b) == Rat(a.num * b.den + b.num * a.den, a.den * b.den)
RSub(a, b) == Rat(a.num * b.den - b.num * a.den, a.den * b.den)
RMul(a, b) == Rat(a.num * b.num, a.den * b.den)
RDiv(a, b) == Rat(a.num * b.den, a.den * b.num)
RLt(a, b) == a.num * b.den < b.num * a.den
RLe(a, b) == a.num * b.den <= b.num * a.den
RInt(n) == Rat(n, 1)
\* (uint64_t) x for x >= 0: truncation toward zero
RTrunc(a) == a.num \div a.den

Zero == RInt(0)
One == RInt(1)

(***************************************************************************)
(* Program constants.                                                      *)
(***************************************************************************)
kMoonfireVentureCapitalConstantsTotalInvestment == One
kDefaultValuesAlpha == Rat(105, 100)
kDefaultValuesXMin == Rat(35, 100)
kDefaultValuesXMax == RInt(1000)
kDefaultValuesNumberOfInvestements == 100
kDefaultValuesLowQuantileProbability == Rat(1, 100)
kDefaultValuesHighQuantileProbability == Rat(99, 100)
kCommonConstantReturnTypeSuccess == "Success"
kCommonConstantReturnTypeError == "Error"
EXIT_SUCCESS == "EXIT_SUCCESS"
EXIT_FAILURE == "EXIT_FAILURE"

(***************************************************************************)
(* Argument texts and their conversions (parseDoubleChecked and            *)
(* parseIntChecked of the common utility routines).                        *)
(***************************************************************************)
DoubleLiterals ==
    [t \in {"-1", "0", "0.005", "0.5", "0.995", "1", "2", "3"} |->
        CASE t = "-1" -> RInt(-1)
          [] t = "0" -> Zero
          [] t = "0.005" -> Rat(5, 1000)
          [] t = "0.5" -> Rat(1, 2)
          [] t = "0.995" -> Rat(995, 1000)
          [] t = "1" -> One
          [] t = "2" -> RInt(2)
          [] t = "3" -> RInt(3)]

IntLiterals ==
    [t \in {"-1", "0", "1", "2", "3"} |->
        CASE t = "-1" -> -1
          [] t = "0" -> 0
          [] t = "1" -> 1
          [] t = "2" -> 2
          [] t = "3" -> 3]

parseDoubleChecked(text) ==
    IF text \in DOMAIN DoubleLiterals
    THEN [ret |-> kCommonConstantReturnTypeSuccess, value |-> DoubleLiterals[text]]
    ELSE [ret |-> kCommonConstantReturnTypeError, value |-> Zero]

parseIntChecked(text) ==
    IF text \in DOMAIN IntLiterals
    THEN [ret |-> kCommonConstantReturnTypeSuccess, value |-> IntLiterals[text]]
    ELSE [ret |-> kCommonConstantReturnTypeError, value |-> 0]

(***************************************************************************)
(* The command line: a sequence of options, each with its argument text    *)
(* ("" for an option that takes none).                                     *)
(***************************************************************************)
NULL == "<NULL>"

Option(opt, arg) == [opt |-> opt, arg |-> arg]

\* the demo-specific options of the options[] table
DemoOptions == {"a", "x", "X", "n", "q", "Q"}

\* the common options parseArgs itself understands
CommonOptions == {"o", "S", "M", "T", "v", "i", "b", "j", "h"}

DefaultCommonCommandLineArguments ==
    [ isWriteToFileEnabled |-> FALSE,
      isTimingEnabled |-> FALSE,
      numberOfMonteCarloIterations |-> 1,
      isOutputSelected |-> FALSE,
      isVerbose |-> FALSE,
      isInputFromFileEnabled |-> FALSE,
      isOutputJSONMode |-> FALSE,
      isHelpEnabled |-> FALSE,
      isBenchmarkingMode |-> FALSE,
      isMonteCarloMode |-> FALSE ]

\* one option of the command line applied to the parse state
ParseOneOption(st, o) ==
    IF o.opt \in DemoOptions
    THEN [st EXCEPT !.found[o.opt] = o.arg]
    ELSE IF o.opt \notin CommonOptions
    THEN [st EXCEPT !.ret = kCommonConstantReturnTypeError]
    ELSE IF o.opt = "M"
    THEN LET r == parseIntChecked(o.arg)
         IN  IF r.ret # kCommonConstantReturnTypeSuccess \/ r.value < 1
             THEN [st EXCEPT !.ret = kCommonConstantReturnTypeError]
             ELSE [st EXCEPT !.common.numberOfMonteCarloIterations = r.value,
                             !.common.isMonteCarloMode = TRUE]
    ELSE CASE o.opt = "o" -> [st EXCEPT !.common.isWriteToFileEnabled = TRUE]
           [] o.opt = "S" -> [st EXCEPT !.common.isOutputSelected = TRUE]
           [] o.opt = "T" -> [st EXCEPT !.common.isTimingEnabled = TRUE]
           [] o.opt = "v" -> [st EXCEPT !.common.isVerbose = TRUE]
           [] o.opt = "i" -> [st EXCEPT !.common.isInputFromFileEnabled = TRUE]
           [] o.opt = "b" -> [st EXCEPT !.common.isBenchmarkingMode = TRUE]
           [] o.opt = "j" -> [st EXCEPT !.common.isOutputJSONMode = TRUE]
           [] o.opt = "h" -> [st EXCEPT !.common.isHelpEnabled = TRUE]

RECURSIVE ParseOptionsFrom(_, _, _)
ParseOptionsFrom(args, k, st) ==
    IF k > Len(args) \/ st.ret # kCommonConstantReturnTypeSuccess
    THEN st
    ELSE ParseOptionsFrom(args, k + 1, ParseOneOption(st, args[k]))

\* parseArgs(argc, argv, &arguments->common, options)
parseArgs(args) ==
    ParseOptionsFrom(args, 1,
        [ ret |-> kCommonConstantReturnTypeSuccess,
          common |-> DefaultCommonCommandLineArguments,
          found |-> [o \in DemoOptions |-> NULL] ])

(***************************************************************************)
(* utilities.c                                                             *)
(***************************************************************************)
setDefaultCommandLineArguments ==
    [ common |-> [DefaultCommonCommandLineArguments
                    EXCEPT !.numberOfMonteCarloIterations = 0],
      alpha |-> kDefaultValuesAlpha,
      xMin |-> kDefaultValuesXMin,
      xMax |-> kDefaultValuesXMax,
      numberOfInvestments |-> kDefaultValuesNumberOfInvestements,
      lowQuantileProbability |-> kDefaultValuesLowQuantileProbability,
      highQuantileProbability |-> kDefaultValuesHighQuantileProbability ]

\* the range tests of getCommandLineArguments
AlphaOutOfRange(alpha) == RLt(alpha, Zero)
XMinOutOfRange(xMin) == RLt(xMin, Zero)
XMaxOutOfRange(xMax) == RLt(xMax, Zero)
XMaxBelowXMin(a) == RLt(a.xMax, a.xMin)
NumberOfInvestmentsOutOfRange(n) == n < 1
LowQuantileProbabilityOutOfRange(p) == RLe(p, Zero) \/ RLe(One, p)
HighQuantileProbabilityOutOfRange(p) == RLe(p, Zero) \/ RLe(One, p)
\* variant: the quantile cross-check is left out
HighQuantileBelowLowQuantileUnchecked(a) == FALSE
HighQuantileBelowLowQuantile(a) ==
    RLt(a.highQuantileProbability, a.lowQuantileProbability)

\* A typecheck block: [ok, arguments] after the block that reads `text`.
Failed(a) == [ok |-> FALSE, arguments |-> a]
Passed(a) == [ok |-> TRUE, arguments |-> a]

TypecheckAlpha(a, text) ==
    IF text = NULL THEN Passed(a)
    ELSE LET r == parseDoubleChecked(text)
         IN  IF r.ret # kCommonConstantReturnTypeSuccess THEN Failed(a)
             ELSE IF AlphaOutOfRange(r.value) THEN Failed(a)
             ELSE Passed([a EXCEPT !.alpha = r.value])

TypecheckXMin(a, text) ==
    IF text = NULL THEN Passed(a)
    ELSE LET r == parseDoubleChecked(text)
         IN  IF r.ret # kCommonConstantReturnTypeSuccess THEN Failed(a)
             ELSE IF XMinOutOfRange(r.value) THEN Failed(a)
             ELSE Passed([a EXCEPT !.xMin = r.value])

TypecheckXMax(a, text) ==
    LET b == IF text = NULL THEN Passed(a)
             ELSE LET r == parseDoubleChecked(text)
                  IN  IF r.ret # kCommonConstantReturnTypeSuccess THEN Failed(a)
                      ELSE IF XMaxOutOfRange(r.value) THEN Failed(a)
                      ELSE Passed([a EXCEPT !.xMax = r.value])
    IN  IF b.ok /\ XMaxBelowXMin(b.arguments) THEN Failed(b.arguments) ELSE b

TypecheckNumberOfInvestments(a, text) ==
    IF text = NULL THEN Passed(a)
    ELSE LET r == parseIntChecked(text)
         IN  IF r.ret # kCommonConstantReturnTypeSuccess THEN Failed(a)
             ELSE IF NumberOfInvestmentsOutOfRange(r.value) THEN Failed(a)
             ELSE Passed([a EXCEPT !.numberOfInvestments = r.value])

TypecheckLowQuantileProbability(a, text) ==
    IF text = NULL THEN Passed(a)
    ELSE LET r == parseDoubleChecked(text)
         IN  IF r.ret # kCommonConstantReturnTypeSuccess THEN Failed(a)
             ELSE IF LowQuantileProbabilityOutOfRange(r.value) THEN Failed(a)
             ELSE Passed([a EXCEPT !.lowQuantileProbability = r.value])

TypecheckHighQuantileProbability(a, text) ==
    LET b == IF text = NULL THEN Passed(a)
             ELSE LET r == parseDoubleChecked(text)
                  IN  IF r.ret # kCommonConstantReturnTypeSuccess THEN Failed(a)
                      ELSE IF HighQuantileProbabilityOutOfRange(r.value) THEN Failed(a)
                      ELSE Passed([a EXCEPT !.highQuantileProbability = r.value])
    IN  IF b.ok /\ HighQuantileBelowLowQuantile(b.arguments)
        THEN Failed(b.arguments) ELSE b

\* the option flags this application refuses
UnsupportedOptionSet(c) ==
    \/ c.isWriteToFileEnabled
    \/ c.isInputFromFileEnabled
    \/ c.isOutputSelected
    \/ c.isVerbose

\* the typecheck blocks in the order of the source
TypecheckBlock(k, a, found) ==
    CASE k = 1 -> TypecheckAlpha(a, found["a"])
      [] k = 2 -> TypecheckXMin(a, found["x"])
      [] k = 3 -> TypecheckXMax(a, found["X"])
      [] k = 4 -> TypecheckNumberOfInvestments(a, found["n"])
      [] k = 5 -> TypecheckLowQuantileProbability(a, found["q"])
      [] k = 6 -> TypecheckHighQuantileProbability(a, found["Q"])

\* blocks k .. 6, stopping at the first that returns the error
RECURSIVE TypecheckFrom(_, _, _)
TypecheckFrom(k, a, found) ==
    IF k > 6 THEN Passed(a)
    ELSE LET b == TypecheckBlock(k, a, found)
         IN  IF b.ok THEN TypecheckFrom(k + 1, b.arguments, found) ELSE b

\* getCommandLineArguments(argc, argv, &arguments):
\* [ret, exited, arguments]; exited is the exit(EXIT_SUCCESS) of --help.
getCommandLineArguments(args) ==
    LET p == parseArgs(args)
        a0 == [setDefaultCommandLineArguments EXCEPT !.common = p.common]
    IN  IF p.ret # kCommonConstantReturnTypeSuccess
        THEN [ret |-> kCommonConstantReturnTypeError,
              exited |-> FALSE, arguments |-> a0]
        ELSE IF a0.common.isHelpEnabled
        THEN [ret |-> kCommonConstantReturnTypeSuccess,
              exited |-> TRUE, arguments |-> a0]
        ELSE IF UnsupportedOptionSet(a0.common)
        THEN [ret |-> kCommonConstantReturnTypeError,
              exited |-> FALSE, arguments |-> a0]
        ELSE LET b == TypecheckFrom(1, a0, p.found)
             IN  [ret |-> IF b.ok THEN kCommonConstantReturnTypeSuccess
                          ELSE kCommonConstantReturnTypeError,
                  exited |-> FALSE, arguments |-> b.arguments]

(***************************************************************************)
(* The platform's sampler and distribution queries (uxhw.h), the random    *)
(* source, and the statistics and persistence routines of the common       *)
(* utility routines.                                                       *)
(***************************************************************************)
\* a variable or buffer slot that was never assigned
Uninit == [num |-> 0, den |-> 0]

\* what a read of a double yields: its value, or any value when unassigned
GarbageDoubles == {Zero, RInt(7)}
ReadDouble(v) == IF v = Uninit THEN GarbageDoubles ELSE {v}

\* the random source: a seed fixes the stream of uniform draws in [0, 1]
Seeds == {"low", "high", "mixed"}
UniformDraw(seed, k) ==
    CASE seed = "low" -> Zero
      [] seed = "high" -> One
      [] seed = "mixed" -> Rat(k % 3, 2)

\* UxHwDoubleBoundedparetoDist(alpha, xMin, xMax) on the uniform draw u:
\* a value of the support [xMin, xMax], monotone in u
UxHwDoubleBoundedparetoDist(alpha, lo, hi, u) == RAdd(lo, RMul(u, RSub(hi, lo)))

\* on a single value: all mass sits at the value
UxHwDoubleProbabilityGT(value, threshold) ==
    IF RLt(threshold, value) THEN One ELSE Zero
UxHwDoubleQuantile(value, probability) == value

\* calculateMeanAndVarianceOfDoubleSamples: streaming mean and variance
RECURSIVE MeanAndVarianceFrom(_, _, _, _, _)
MeanAndVarianceFrom(samples, count, k, mean, m2) ==
    IF k >= count
    THEN [mean |-> mean, variance |-> RDiv(m2, RInt(count))]
    ELSE LET x == samples[k]
             newMean == RAdd(mean, RDiv(RSub(x, mean), RInt(k + 1)))
         IN  MeanAndVarianceFrom(samples, count, k + 1, newMean,
                 RAdd(m2, RMul(RSub(x, mean), RSub(x, newMean))))

calculateMeanAndVarianceOfDoubleSamples(samples, count) ==
    MeanAndVarianceFrom(samples, count, 0, Zero, Zero)

CLOCKS_PER_SEC == 1000000

(***************************************************************************)
(* main.c: the two routines of a trial.                                    *)
(***************************************************************************)
PerInvestmentValue(a) ==
    RDiv(kMoonfireVentureCapitalConstantsTotalInvestment,
         RInt(a.numberOfInvestments))

\* the sampler result of investment j when the random source stands at rng
SamplerDraw(a, sd, rng, j) ==
    UxHwDoubleBoundedparetoDist(a.alpha, a.xMin, RAdd(a.xMax, a.xMin),
                                UniformDraw(sd, rng + j))

\* variant: the draw is not shifted down by xMin
InvestmentReturnUnshifted(a, draw) == RMul(draw, PerInvestmentValue(a))

\* one entry of loadInvestmentReturns from its draw
InvestmentReturnOf(a, draw) ==
    RMul(RSub(draw, a.xMin), PerInvestmentValue(a))

\* the slots loadInvestmentReturns writes
LoadedSlots(a) == 0 .. (a.numberOfInvestments - 1)

loadInvestmentReturns(a, returns, sd, rng) ==
    [j \in DOMAIN returns |->
        IF j \in LoadedSlots(a)
        THEN InvestmentReturnOf(a, SamplerDraw(a, sd, rng, j))
        ELSE returns[j]]

\* variant: the accumulator carries the previous portfolio return
AccumulatorCarried(previous) == previous

\* the accumulator's starting value in calculatePortfolioReturn
AccumulatorStart(previous) == Zero

\* portfolioReturn += investmentReturns[j] for j = from .. to - 1, in order
\* (the test of acc.den only makes TLC evaluate the partial sum before it
\* descends: a double's denominator is never 0)
RECURSIVE SumFrom(_, _, _, _)
SumFrom(returns, to, j, acc) ==
    IF j >= to \/ acc.den = 0 THEN acc
    ELSE SumFrom(returns, to, j + 1, RAdd(acc, returns[j]))

\* the same loop run in stretches of ten iterations, which bounds the depth
\* of TLC's evaluation; the order of the additions is the loop's
RECURSIVE SumLoop(_, _, _, _)
SumLoop(returns, n, j, acc) ==
    IF j >= n \/ acc.den = 0 THEN acc
    ELSE LET to == IF j + 10 < n THEN j + 10 ELSE n
         IN  SumLoop(returns, n, to, SumFrom(returns, to, j, acc))

\* calculatePortfolioReturn, on the values its reads of the array yield
calculatePortfolioReturn(a, returns, previous) ==
    SumLoop(returns, a.numberOfInvestments, 0, AccumulatorStart(previous))

(***************************************************************************)
(* State of one run of main().                                             *)
(***************************************************************************)
VARIABLES
    pc,                       \* position in main()
    seed,                     \* seed of the random source
    rng,                      \* uniform draws consumed so far
    clk,                      \* what clock() returns now
    ret,                      \* what getCommandLineArguments returned
    exitCode,                 \* the process's exit status
    arguments,                \* CommandLineArguments arguments
    investmentReturns,        \* the array behind double * investmentReturns
    investmentReturnsPtr,     \* "unset", "allocated" or "freed"
    monteCarloOutputSamples,  \* the array behind monteCarloOutputSamples
    monteCarloOutputSamplesPtr,
    portfolioReturn,
    probabilityOfLoss,
    lowQuantile,
    highQuantile,
    start,
    end,
    cpuTimeInSeconds,
    monteCarloOutputMeanAndVariance,
    i,                        \* the trial loop's index
    stdout,                   \* what was printed, in order
    dataDotOut,               \* what the persistence routine was handed
    trialDraws,               \* history: sampler results of the current trial
    trialCalls,               \* history: calls made by the current trial
    trials,                   \* history: the completed trials
    slotWrites,               \* history: stores into monteCarloOutputSamples
    bufferReads,              \* history: reads of monteCarloOutputSamples
    samplerAlphas,            \* history: every alpha handed to the sampler
    loopClock,                \* history: clock at loop entry and loop exit
    heapLog                   \* history: every malloc, write, read and free

vars == << pc, seed, rng, clk, ret, exitCode, arguments,
           investmentReturns, investmentReturnsPtr, monteCarloOutputSamples,
           monteCarloOutputSamplesPtr, portfolioReturn, probabilityOfLoss,
           lowQuantile, highQuantile, start, end, cpuTimeInSeconds,
           monteCarloOutputMeanAndVariance, i, stdout, dataDotOut,
           trialDraws, trialCalls, trials, slotWrites, bufferReads,
           samplerAlphas, loopClock, heapLog >>

locals == << portfolioReturn, probabilityOfLoss, lowQuantile, highQuantile >>
timing == << start, end, cpuTimeInSeconds >>
buffers == << investmentReturns, investmentReturnsPtr,
              monteCarloOutputSamples, monteCarloOutputSamplesPtr >>
history == << trialDraws, trialCalls, trials, slotWrites, bufferReads,
              samplerAlphas, loopClock, heapLog >>

\* one operation on one of main's two heap buffers
HeapEvent(op, buffer) == [op |-> op, buffer |-> buffer]

(***************************************************************************)
(* The command lines of the model.                                         *)
(***************************************************************************)
ValueOptions ==
    {Option("a", t) : t \in {"-1", "0", "2", "abc"}}
    \cup {Option("x", t) : t \in {"-1", "0", "2"}}
    \cup {Option("X", t) : t \in {"-1", "0", "3"}}
    \cup {Option("n", t) : t \in {"0", "0.5", "1", "2"}}
    \cup {Option("q", t) : t \in {"0", "0.5", "0.995", "1"}}
    \cup {Option("Q", t) : t \in {"0", "0.005", "0.5", "1"}}
    \cup {Option("M", "0")}
    \cup {Option(o, "") : o \in {"o", "S", "i", "v", "z", "h"}}

ModeOptions ==
    {Option("M", "1"), Option("M", "3"), Option("T", ""), Option("b", ""),
     Option("j", ""), Option("n", "2")}

SeqsUpTo(S, n) == UNION {[1 .. k -> S] : k \in 0 .. n}

CommandLines ==
    SeqsUpTo(ValueOptions, MaxValueArgs) \cup SeqsUpTo(ModeOptions, MaxModeArgs)

NoMeanAndVariance == [mean |-> Zero, variance |-> Zero]

Init ==
    /\ pc = "getCommandLineArguments"
    /\ seed \in Seeds
    /\ rng = 0
    /\ clk = 1
    /\ ret = "none"
    /\ exitCode = "running"
    /\ arguments = [setDefaultCommandLineArguments EXCEPT
                        !.alpha = Zero, !.xMin = Zero, !.xMax = Zero,
                        !.numberOfInvestments = 0,
                        !.lowQuantileProbability = Zero,
                        !.highQuantileProbability = Zero]
    /\ investmentReturns = << >>
    /\ investmentReturnsPtr = "unset"
    /\ monteCarloOutputSamples = << >>
    /\ monteCarloOutputSamplesPtr = "unset"
    /\ portfolioReturn = Uninit
    /\ probabilityOfLoss = Uninit
    /\ lowQuantile = Uninit
    /\ highQuantile = Uninit
    /\ start = 0
    /\ end = 0
    /\ cpuTimeInSeconds = Uninit
    /\ monteCarloOutputMeanAndVariance = NoMeanAndVariance
    /\ i = 0
    /\ stdout = << >>
    /\ dataDotOut = << >>
    /\ trialDraws = << >>
    /\ trialCalls = << >>
    /\ trials = << >>
    /\ slotWrites = << >>
    /\ bufferReads = << >>
    /\ samplerAlphas = {}
    /\ loopClock = << >>
    /\ heapLog = << >>

(***************************************************************************)
(* main(): one action per step.                                            *)
(***************************************************************************)
NumberOfTrials == arguments.common.numberOfMonteCarloIterations

\* variant: main ignores what getCommandLineArguments returned
MainRejectsNever(r) == FALSE

\* main's test of the value getCommandLineArguments returned
MainRejects(r) == r.ret # kCommonConstantReturnTypeSuccess

\* main after getCommandLineArguments returned r (or exited)
MainAfterArguments(r) ==
    /\ arguments' = r.arguments
    /\ ret' = IF r.exited THEN "exited" ELSE r.ret
    /\ IF r.exited
       THEN pc' = "exit" /\ exitCode' = EXIT_SUCCESS
       ELSE IF MainRejects(r)
       THEN pc' = "exit" /\ exitCode' = EXIT_FAILURE
       ELSE pc' = "allocate" /\ exitCode' = exitCode

MainGetCommandLineArguments ==
    /\ pc = "getCommandLineArguments"
    /\ \E argv \in CommandLines :
           MainAfterArguments(getCommandLineArguments(argv))
    /\ UNCHANGED << seed, rng, clk, buffers, locals, timing,
                    monteCarloOutputMeanAndVariance, i, stdout, dataDotOut,
                    history >>

\* variant: the sample buffer is allocated only for more than one trial
AllocatesSamplesForManyTrials(a) ==
    a.common.isMonteCarloMode /\ a.common.numberOfMonteCarloIterations > 1

\* the condition under which main allocates monteCarloOutputSamples
AllocatesSamples(a) == a.common.isMonteCarloMode

MainAllocate ==
    /\ pc = "allocate"
    /\ IF AllocatesSamples(arguments)
       THEN /\ monteCarloOutputSamples' =
                   [k \in 0 .. (NumberOfTrials - 1) |-> Uninit]
            /\ monteCarloOutputSamplesPtr' = "allocated"
            /\ heapLog' = heapLog \o
                   << HeapEvent("malloc", "monteCarloOutputSamples"),
                      HeapEvent("malloc", "investmentReturns") >>
       ELSE /\ UNCHANGED << monteCarloOutputSamples,
                            monteCarloOutputSamplesPtr >>
            /\ heapLog' = Append(heapLog,
                              HeapEvent("malloc", "investmentReturns"))
    /\ investmentReturns' =
           [k \in 0 .. (arguments.numberOfInvestments - 1) |-> Uninit]
    /\ investmentReturnsPtr' = "allocated"
    /\ pc' = "startTiming"
    /\ UNCHANGED << seed, rng, clk, ret, exitCode, arguments, locals, timing,
                    monteCarloOutputMeanAndVariance, i, stdout, dataDotOut,
                    trialDraws, trialCalls, trials, slotWrites, bufferReads,
                    samplerAlphas, loopClock >>

\* the condition under which main times the run
TimesTheRun(a) == a.common.isTimingEnabled \/ a.common.isBenchmarkingMode

MainStartTiming ==
    /\ pc = "startTiming"
    /\ start' = IF TimesTheRun(arguments) THEN clk ELSE start
    /\ loopClock' = << clk >>
    /\ pc' = "loopTest"
    /\ UNCHANGED << seed, rng, clk, ret, exitCode, arguments, buffers, locals,
                    end, cpuTimeInSeconds, monteCarloOutputMeanAndVariance, i,
                    stdout, dataDotOut, trialDraws, trialCalls, trials,
                    slotWrites, bufferReads, samplerAlphas, heapLog >>

\* variant: the trial loop runs one iteration too many
LoopContinuesOneMore(index, a) ==
    index <= a.common.numberOfMonteCarloIterations

\* variant: the trial loop stops one iteration early
LoopContinuesOneLess(index, a) ==
    index < a.common.numberOfMonteCarloIterations - 1

\* the trial loop's condition
LoopContinues(index, a) == index < a.common.numberOfMonteCarloIterations

TrialLoopTest ==
    /\ pc = "loopTest"
    /\ pc' = IF LoopContinues(i, arguments)
             THEN "loadInvestmentReturns" ELSE "meanAndVariance"
    /\ UNCHANGED << seed, rng, clk, ret, exitCode, arguments, buffers, locals,
                    timing, monteCarloOutputMeanAndVariance, i, stdout,
                    dataDotOut, history >>

TrialLoadInvestmentReturns ==
    /\ pc = "loadInvestmentReturns"
    /\ investmentReturns' =
           loadInvestmentReturns(arguments, investmentReturns, seed, rng)
    /\ rng' = rng + arguments.numberOfInvestments
    /\ clk' = clk + 1
    /\ trialDraws' = [j \in 0 .. (arguments.numberOfInvestments - 1) |->
                          SamplerDraw(arguments, seed, rng, j)]
    /\ trialCalls' = << "loadInvestmentReturns" >>
    /\ samplerAlphas' = samplerAlphas \cup {arguments.alpha}
    /\ heapLog' = Append(heapLog, HeapEvent("write", "investmentReturns"))
    /\ pc' = "calculatePortfolioReturn"
    /\ UNCHANGED << seed, ret, exitCode, arguments, investmentReturnsPtr,
                    monteCarloOutputSamples, monteCarloOutputSamplesPtr, locals,
                    timing, monteCarloOutputMeanAndVariance, i, stdout,
                    dataDotOut, trials, slotWrites, bufferReads, loopClock >>

\* the values reads of an array yield, g standing for an unassigned slot
ReadArray(array, g) ==
    [k \in DOMAIN array |-> IF array[k] = Uninit THEN g ELSE array[k]]

TrialCalculatePortfolioReturn ==
    /\ pc = "calculatePortfolioReturn"
    /\ \E g \in GarbageDoubles, previous \in ReadDouble(portfolioReturn) :
           portfolioReturn' =
               calculatePortfolioReturn(arguments,
                   ReadArray(investmentReturns, g), previous)
    /\ clk' = clk + 1
    /\ trialCalls' = Append(trialCalls, "calculatePortfolioReturn")
    /\ heapLog' = Append(heapLog, HeapEvent("read", "investmentReturns"))
    /\ pc' = "statistics"
    /\ UNCHANGED << seed, rng, ret, exitCode, arguments, buffers,
                    probabilityOfLoss, lowQuantile, highQuantile, timing,
                    monteCarloOutputMeanAndVariance, i, stdout, dataDotOut,
                    trialDraws, trials, slotWrites, bufferReads, samplerAlphas,
                    loopClock >>

\* variant: the statistics are also skipped in Monte Carlo mode
ComputesStatisticsOutsideMonteCarlo(a) ==
    ~a.common.isBenchmarkingMode /\ ~a.common.isMonteCarloMode

\* the condition under which a trial computes its statistics
ComputesStatistics(a) == ~a.common.isBenchmarkingMode

TrialStatistics ==
    /\ pc = "statistics"
    /\ IF ComputesStatistics(arguments)
       THEN /\ probabilityOfLoss' =
                   RSub(One, UxHwDoubleProbabilityGT(portfolioReturn,
                            kMoonfireVentureCapitalConstantsTotalInvestment))
            /\ lowQuantile' = UxHwDoubleQuantile(portfolioReturn,
                                  arguments.lowQuantileProbability)
            /\ highQuantile' = UxHwDoubleQuantile(portfolioReturn,
                                   arguments.highQuantileProbability)
            /\ trialCalls' = trialCalls \o << "UxHwDoubleProbabilityGT",
                                 "UxHwDoubleQuantile", "UxHwDoubleQuantile" >>
       ELSE UNCHANGED << probabilityOfLoss, lowQuantile, highQuantile,
                         trialCalls >>
    /\ pc' = "storeSample"
    /\ UNCHANGED << seed, rng, clk, ret, exitCode, arguments, buffers,
                    portfolioReturn, timing, monteCarloOutputMeanAndVariance, i,
                    stdout, dataDotOut, trialDraws, trials, slotWrites,
                    bufferReads, samplerAlphas, loopClock, heapLog >>

\* the slot of monteCarloOutputSamples trial `index` stores into
SampleSlot(index) == index

TrialStoreSample ==
    /\ pc = "storeSample"
    /\ IF arguments.common.isMonteCarloMode
       THEN /\ monteCarloOutputSamples' =
                   IF SampleSlot(i) \in DOMAIN monteCarloOutputSamples
                   THEN [monteCarloOutputSamples EXCEPT
                             ![SampleSlot(i)] = portfolioReturn]
                   ELSE monteCarloOutputSamples
            /\ slotWrites' = Append(slotWrites,
                                 [trial |-> i, slot |-> SampleSlot(i)])
            /\ heapLog' = Append(heapLog,
                              HeapEvent("write", "monteCarloOutputSamples"))
       ELSE UNCHANGED << monteCarloOutputSamples, slotWrites, heapLog >>
    /\ trials' = Append(trials, [draws |-> trialDraws, calls |-> trialCalls,
                                 portfolioReturn |-> portfolioReturn])
    /\ i' = i + 1
    /\ pc' = "loopTest"
    /\ UNCHANGED << seed, rng, clk, ret, exitCode, arguments,
                    investmentReturns, investmentReturnsPtr,
                    monteCarloOutputSamplesPtr, locals, timing,
                    monteCarloOutputMeanAndVariance, stdout, dataDotOut,
                    trialDraws, trialCalls, bufferReads, samplerAlphas,
                    loopClock >>

\* variant: main keeps the last trial's portfolio return
ReturnOfLastTrial(meanAndVariance, lastTrial) == lastTrial

\* the portfolio return main keeps after the Monte Carlo post-processing
ReturnAfterPostProcessing(meanAndVariance, lastTrial) == meanAndVariance.mean

MainMeanAndVariance ==
    /\ pc = "meanAndVariance"
    /\ IF arguments.common.isMonteCarloMode
       THEN \E g \in GarbageDoubles, last \in ReadDouble(portfolioReturn) :
              LET mv == calculateMeanAndVarianceOfDoubleSamples(
                            ReadArray(monteCarloOutputSamples, g),
                            NumberOfTrials)
              IN  /\ monteCarloOutputMeanAndVariance' = mv
                  /\ portfolioReturn' = ReturnAfterPostProcessing(mv, last)
                  /\ bufferReads' = Append(bufferReads,
                         [by |-> "calculateMeanAndVarianceOfDoubleSamples",
                          trialsDone |-> Len(trials)])
                  /\ heapLog' = Append(heapLog,
                         HeapEvent("read", "monteCarloOutputSamples"))
       ELSE UNCHANGED << monteCarloOutputMeanAndVariance, portfolioReturn,
                         bufferReads, heapLog >>
    /\ clk' = clk + 1
    /\ pc' = "stopTiming"
    /\ UNCHANGED << seed, rng, ret, exitCode, arguments, buffers,
                    probabilityOfLoss, lowQuantile, highQuantile, timing, i,
                    stdout, dataDotOut, trialDraws, trialCalls, trials,
                    slotWrites, samplerAlphas, loopClock >>

MainStopTiming ==
    /\ pc = "stopTiming"
    /\ IF TimesTheRun(arguments)
       THEN /\ end' = clk
            /\ cpuTimeInSeconds' = Rat(clk - start, CLOCKS_PER_SEC)
       ELSE UNCHANGED << end, cpuTimeInSeconds >>
    /\ loopClock' = Append(loopClock, clk)
    /\ pc' = "printResults"
    /\ UNCHANGED << seed, rng, clk, ret, exitCode, arguments, buffers, locals,
                    start, monteCarloOutputMeanAndVariance, i, stdout,
                    dataDotOut, trialDraws, trialCalls, trials, slotWrites,
                    bufferReads, samplerAlphas, heapLog >>

\* (uint64_t)(cpuTimeInSeconds * 1000000)
Microseconds(seconds) == RTrunc(RMul(seconds, RInt(1000000)))

\* variant: the timing line is printed in benchmarking mode too
PrintedResultsWithTiming(a, pr, pl, lq, hq, cpu) ==
    IF a.common.isBenchmarkingMode
    THEN << [kind |-> "benchmarking", portfolioReturn |-> pr,
             microseconds |-> Microseconds(cpu)],
            [kind |-> "cpuTime", seconds |-> cpu] >>
    ELSE << [kind |-> "forecast", portfolioReturn |-> pr] >>

\* what main prints, on the values its reads yield
PrintedResults(a, pr, pl, lq, hq, cpu) ==
    IF a.common.isBenchmarkingMode
    THEN << [kind |-> "benchmarking", portfolioReturn |-> pr,
             microseconds |-> Microseconds(cpu)] >>
    ELSE (IF ~a.common.isOutputJSONMode
          THEN << [kind |-> "forecast", portfolioReturn |-> pr] >>
               \o (IF ~a.common.isMonteCarloMode
                   THEN << [kind |-> "probabilityOfLoss", value |-> pl],
                           [kind |-> "lowQuantile", value |-> lq],
                           [kind |-> "highQuantile", value |-> hq] >>
                   ELSE << >>)
          ELSE << [kind |-> "json", portfolioReturn |-> pr] >>)
         \o (IF a.common.isTimingEnabled /\ ~a.common.isOutputJSONMode
             THEN << [kind |-> "cpuTime", seconds |-> cpu] >>
             ELSE << >>)

MainPrintResults ==
    /\ pc = "printResults"
    /\ \E pr \in ReadDouble(portfolioReturn),
          pl \in ReadDouble(probabilityOfLoss),
          lq \in ReadDouble(lowQuantile),
          hq \in ReadDouble(highQuantile),
          cpu \in ReadDouble(cpuTimeInSeconds) :
           stdout' = PrintedResults(arguments, pr, pl, lq, hq, cpu)
    /\ pc' = "freeInvestmentReturns"
    /\ UNCHANGED << seed, rng, clk, ret, exitCode, arguments, buffers, locals,
                    timing, monteCarloOutputMeanAndVariance, i, dataDotOut,
                    history >>

MainFreeInvestmentReturns ==
    /\ pc = "freeInvestmentReturns"
    /\ investmentReturnsPtr' = "freed"
    /\ heapLog' = Append(heapLog, HeapEvent("free", "investmentReturns"))
    /\ pc' = "saveMonteCarloData"
    /\ UNCHANGED << seed, rng, clk, ret, exitCode, arguments,
                    investmentReturns, monteCarloOutputSamples,
                    monteCarloOutputSamplesPtr, locals, timing,
                    monteCarloOutputMeanAndVariance, i, stdout, dataDotOut,
                    trialDraws, trialCalls, trials, slotWrites, bufferReads,
                    samplerAlphas, loopClock >>

MainSaveMonteCarloData ==
    /\ pc = "saveMonteCarloData"
    /\ IF arguments.common.isMonteCarloMode
       THEN /\ \E cpu \in ReadDouble(cpuTimeInSeconds) :
                  dataDotOut' = << [samples |-> monteCarloOutputSamples,
                                    microseconds |-> Microseconds(cpu),
                                    count |-> NumberOfTrials] >>
            /\ bufferReads' = Append(bufferReads,
                   [by |-> "saveMonteCarloDoubleDataToDataDotOutFile",
                    trialsDone |-> Len(trials)])
            /\ monteCarloOutputSamplesPtr' = "freed"
            /\ heapLog' = heapLog \o
                   << HeapEvent("read", "monteCarloOutputSamples"),
                      HeapEvent("free", "monteCarloOutputSamples") >>
       ELSE UNCHANGED << dataDotOut, bufferReads, monteCarloOutputSamplesPtr,
                         heapLog >>
    /\ pc' = "return"
    /\ UNCHANGED << seed, rng, clk, ret, exitCode, arguments,
                    investmentReturns, investmentReturnsPtr,
                    monteCarloOutputSamples, locals, timing,
                    monteCarloOutputMeanAndVariance, i, stdout, trialDraws,
                    trialCalls, trials, slotWrites, samplerAlphas, loopClock >>

MainReturn ==
    /\ pc = "return"
    /\ pc' = "exit"
    /\ exitCode' = EXIT_SUCCESS
    /\ UNCHANGED << seed, rng, clk, ret, arguments, buffers, locals, timing,
                    monteCarloOutputMeanAndVariance, i, stdout, dataDotOut,
                    history >>

Next ==
    \/ MainGetCommandLineArguments
    \/ MainAllocate
    \/ MainStartTiming
    \/ TrialLoopTest
    \/ TrialLoadInvestmentReturns
    \/ TrialCalculatePortfolioReturn
    \/ TrialStatistics
    \/ TrialStoreSample
    \/ MainMeanAndVariance
    \/ MainStopTiming
    \/ MainPrintResults
    \/ MainFreeInvestmentReturns
    \/ MainSaveMonteCarloData
    \/ MainReturn

Spec == Init /\ [][Next]_vars

(***************************************************************************)
(* Properties.                                                             *)
(***************************************************************************)
Rejected == ret = kCommonConstantReturnTypeError
Accepted == ret = kCommonConstantReturnTypeSuccess
AfterLoop == pc \in {"stopTiming", "printResults", "freeInvestmentReturns",
                     "saveMonteCarloData", "return", "exit"}

\* C1: when getCommandLineArguments returns the error, main has terminated
\* with EXIT_FAILURE and has allocated no buffer, drawn no sample, run no
\* trial, printed no result and written no sample file.
C1_RejectedRunDoesNothing ==
    Rejected =>
        /\ pc = "exit"
        /\ exitCode = EXIT_FAILURE
        /\ investmentReturnsPtr = "unset"
        /\ monteCarloOutputSamplesPtr = "unset"
        /\ rng = 0
        /\ samplerAlphas = {}
        /\ trials = << >>
        /\ trialCalls = << >>
        /\ stdout = << >>
        /\ dataDotOut = << >>

\* a rejection that came after some fields had already been assigned
\* (xMin taken from -x, then xMax < xMin)
C1_Witness ==
    /\ Rejected
    /\ pc = "exit"
    /\ arguments.xMin = RInt(2)
    /\ arguments.xMax = Zero

\* C2 (as claimed): every alpha handed to the bounded-Pareto sampler by
\* loadInvestmentReturns is > 0.
C2_SamplerAlphaPositive ==
    \A alpha \in samplerAlphas : RLt(Zero, alpha)

\* C3: whenever getCommandLineArguments returns success, the configuration
\* satisfies xMin >= 0, xMax >= xMin, numberOfInvestments >= 1, both quantile
\* probabilities in (0, 1) and low <= high, on the final values.
C3_AcceptedConfigurationValid ==
    Accepted =>
        /\ RLe(Zero, arguments.xMin)
        /\ RLe(arguments.xMin, arguments.xMax)
        /\ arguments.numberOfInvestments >= 1
        /\ RLt(Zero, arguments.lowQuantileProbability)
        /\ RLt(arguments.lowQuantileProbability, One)
        /\ RLt(Zero, arguments.highQuantileProbability)
        /\ RLt(arguments.highQuantileProbability, One)
        /\ RLe(arguments.lowQuantileProbability,
               arguments.highQuantileProbability)

\* an accepted run in which one field of a pair was supplied and the other
\* kept its default: -q 0.5 against the default high quantile probability
C3_Witness ==
    /\ Accepted
    /\ arguments.lowQuantileProbability = Rat(1, 2)
    /\ arguments.highQuantileProbability = kDefaultValuesHighQuantileProbability
    /\ arguments.xMin = kDefaultValuesXMin

StatisticsCalls == {"UxHwDoubleProbabilityGT", "UxHwDoubleQuantile"}

\* how many of a trial's calls evaluate a probability or a quantile
StatisticsCallCount(calls) ==
    Cardinality({k \in 1 .. Len(calls) : calls[k] \in StatisticsCalls})

\* C4 (as claimed): in a Monte Carlo run no trial evaluates
\* UxHwDoubleProbabilityGT or UxHwDoubleQuantile on its portfolio return.
C4_MonteCarloSkipsStatistics ==
    arguments.common.isMonteCarloMode =>
        /\ StatisticsCallCount(trialCalls) = 0
        /\ \A k \in 1 .. Len(trials) : StatisticsCallCount(trials[k].calls) = 0

\* C4 (amended): in a Monte Carlo run the per-trial probability and quantile
\* computation is skipped exactly when benchmarking mode is set; without
\* benchmarking mode every trial evaluates one probability and two quantiles.
C4_MonteCarloStatisticsFollowBenchmarking ==
    arguments.common.isMonteCarloMode =>
        \A k \in 1 .. Len(trials) :
            StatisticsCallCount(trials[k].calls) =
                IF arguments.common.isBenchmarkingMode THEN 0 ELSE 3

\* a finished Monte Carlo run of three trials without benchmarking mode
C4_Witness ==
    /\ arguments.common.isMonteCarloMode
    /\ ~arguments.common.isBenchmarkingMode
    /\ Len(trials) = 3
    /\ StatisticsCallCount(trials[3].calls) = 3
    /\ pc = "exit"

\* the elapsed time between loop entry and loop exit, in microseconds
ElapsedMicroseconds ==
    Microseconds(Rat(loopClock[2] - loopClock[1], CLOCKS_PER_SEC))

\* C5: in benchmarking mode, Monte Carlo or not, every trial calls only
\* loadInvestmentReturns and calculatePortfolioReturn, and the only thing
\* printed is the line "<return> <elapsed microseconds>".
C5_BenchmarkingOnlySamplesAndSums ==
    (Accepted /\ arguments.common.isBenchmarkingMode) =>
        /\ \A k \in 1 .. Len(trials) :
               trials[k].calls =
                   << "loadInvestmentReturns", "calculatePortfolioReturn" >>
        /\ StatisticsCallCount(trialCalls) = 0
        /\ probabilityOfLoss = Uninit
        /\ lowQuantile = Uninit
        /\ highQuantile = Uninit
        /\ Len(stdout) <= 1
        /\ pc \in {"freeInvestmentReturns", "saveMonteCarloData", "return",
                   "exit"} =>
               /\ Len(stdout) = 1
               /\ stdout[1] = [kind |-> "benchmarking",
                               portfolioReturn |-> portfolioReturn,
                               microseconds |-> ElapsedMicroseconds]

\* a finished benchmarking run of three Monte Carlo trials with timing and
\* JSON mode also requested
C5_Witness ==
    /\ arguments.common.isBenchmarkingMode
    /\ arguments.common.isMonteCarloMode
    /\ arguments.common.isTimingEnabled
    /\ arguments.common.isOutputJSONMode
    /\ Len(trials) = 3
    /\ Len(stdout) = 1
    /\ pc = "exit"

\* C6: in Monte Carlo mode trial i stores into slot i and no other, every
\* slot 0 .. numberOfTrials-1 is written exactly once and none outside, the
\* aggregation runs exactly numberOfTrials times, and the buffer is read only
\* after all trials have completed.
C6_OneSlotPerTrial ==
    (Accepted /\ arguments.common.isMonteCarloMode) =>
        /\ Len(slotWrites) = Len(trials)
        /\ Len(trials) <= NumberOfTrials
        /\ \A k \in 1 .. Len(slotWrites) :
               /\ slotWrites[k] = [trial |-> k - 1, slot |-> k - 1]
               /\ slotWrites[k].slot \in DOMAIN monteCarloOutputSamples
               /\ monteCarloOutputSamples[k - 1] = trials[k].portfolioReturn
        /\ monteCarloOutputSamplesPtr # "unset" =>
               /\ DOMAIN monteCarloOutputSamples = 0 .. (NumberOfTrials - 1)
               /\ \A k \in Len(slotWrites) .. (NumberOfTrials - 1) :
                      monteCarloOutputSamples[k] = Uninit
        /\ AfterLoop => Len(trials) = NumberOfTrials
        /\ \A k \in 1 .. Len(bufferReads) :
               bufferReads[k].trialsDone = NumberOfTrials

\* a finished Monte Carlo run of three trials whose buffer was read twice
C6_Witness ==
    /\ arguments.common.isMonteCarloMode
    /\ NumberOfTrials = 3
    /\ Len(slotWrites) = 3
    /\ Len(bufferReads) = 2
    /\ pc = "exit"

\* the entries of the array that have been written
WrittenReturns ==
    {investmentReturns[j] : j \in DOMAIN investmentReturns} \ {Uninit}

\* C7 (as claimed): every entry written by loadInvestmentReturns lies in
\* [0, (xMax - xMin) * perInvestmentAllocation].
C7_ReturnsWithinXMaxMinusXMin ==
    \A r \in WrittenReturns :
        /\ RLe(Zero, r)
        /\ RLe(r, RMul(RSub(arguments.xMax, arguments.xMin),
                       PerInvestmentValue(arguments)))

\* C7 (amended): every entry written by loadInvestmentReturns lies in
\* [0, xMax * perInvestmentAllocation]: the draw's domain [xMin, xMax + xMin]
\* shifted down by xMin is [0, xMax].
C7_ReturnsWithinXMax ==
    \A r \in WrittenReturns :
        /\ RLe(Zero, r)
        /\ RLe(r, RMul(arguments.xMax, PerInvestmentValue(arguments)))

\* a trial whose draws sit at the top of the domain, with xMin > 0: an entry
\* equal to xMax * perInvestmentAllocation
C7_Witness ==
    /\ pc = "calculatePortfolioReturn"
    /\ RLt(Zero, arguments.xMin)
    /\ arguments.numberOfInvestments = 2
    /\ RMul(arguments.xMax, PerInvestmentValue(arguments)) \in WrittenReturns

\* C8 (as claimed): the timing value handed to the persistence routine with
\* the samples is the elapsed time measured around the trial loop.
C8_SavedTimingIsElapsed ==
    dataDotOut # << >> =>
        /\ cpuTimeInSeconds # Uninit
        /\ dataDotOut[1].microseconds = ElapsedMicroseconds

\* the sampler results trial k (from 0) consumes: draws k*n .. k*n + n - 1 of
\* the stream the seed fixes
DrawsOfTrial(k) ==
    [j \in 0 .. (arguments.numberOfInvestments - 1) |->
        SamplerDraw(arguments, seed, k * arguments.numberOfInvestments, j)]

\* the total portfolio return as a function of the configuration and of one
\* trial's draws: (sum of the draws - n * xMin) / n
ReturnOfDraws(draws) ==
    RDiv(RSub(SumLoop(draws, arguments.numberOfInvestments, 0, Zero),
              RMul(RInt(arguments.numberOfInvestments), arguments.xMin)),
         RInt(arguments.numberOfInvestments))

\* C9: a trial carries no state over: when calculatePortfolioReturn starts,
\* every entry of the array holds the return of this trial's own draw, and
\* the portfolio return of trial k is a function only of the configuration
\* and of the numberOfInvestments draws consumed in trial k.
C9_TrialReturnDependsOnOwnDraws ==
    Accepted =>
        /\ pc = "calculatePortfolioReturn" =>
               /\ trialDraws = DrawsOfTrial(i)
               /\ investmentReturns =
                      [j \in 0 .. (arguments.numberOfInvestments - 1) |->
                          RDiv(RSub(trialDraws[j], arguments.xMin),
                               RInt(arguments.numberOfInvestments))]
        /\ pc \in {"statistics", "storeSample"} =>
               portfolioReturn = ReturnOfDraws(DrawsOfTrial(i))
        /\ \A k \in 1 .. Len(trials) :
               /\ trials[k].draws = DrawsOfTrial(k - 1)
               /\ trials[k].portfolioReturn = ReturnOfDraws(trials[k].draws)

\* three finished trials whose draws, and so whose returns, differ
C9_Witness ==
    /\ Len(trials) = 3
    /\ trials[1].portfolioReturn # trials[2].portfolioReturn
    /\ trials[2].portfolioReturn # trials[3].portfolioReturn
    /\ trials[2].draws # trials[3].draws
    /\ pc = "exit"

\* the mean of the completed trials' portfolio returns: their sum over their
\* number
MeanOfTrials ==
    RDiv(SumLoop([k \in 0 .. (Len(trials) - 1) |->
                      trials[k + 1].portfolioReturn],
                 Len(trials), 0, Zero),
         RInt(Len(trials)))

ProbabilityAndQuantileLines ==
    {"probabilityOfLoss", "lowQuantile", "highQuantile"}

\* C10: in Monte Carlo mode the portfolio return printed (human-readable,
\* JSON or benchmarking line) is the mean over all numberOfTrials samples,
\* and no probability of loss or quantile is printed; outside Monte Carlo
\* mode the portfolio return printed is the single trial's total return.
C10_ReportedReturn ==
    stdout # << >> =>
        IF arguments.common.isMonteCarloMode
        THEN /\ Len(trials) = NumberOfTrials
             /\ stdout[1].portfolioReturn = MeanOfTrials
             /\ \A k \in 1 .. Len(stdout) :
                    stdout[k].kind \notin ProbabilityAndQuantileLines
        ELSE /\ Len(trials) = 1
             /\ stdout[1].portfolioReturn = trials[1].portfolioReturn

\* a Monte Carlo run of three trials that printed a mean which differs from
\* the last trial's return
C10_Witness ==
    /\ arguments.common.isMonteCarloMode
    /\ Len(trials) = 3
    /\ stdout # << >>
    /\ stdout[1].kind = "forecast"
    /\ stdout[1].portfolioReturn # trials[3].portfolioReturn

\* the mode whose printout has the probability-of-loss and quantile lines
HumanReadableStatistics ==
    /\ ~arguments.common.isBenchmarkingMode
    /\ ~arguments.common.isMonteCarloMode
    /\ ~arguments.common.isOutputJSONMode

\* C11: on every path that reaches the printout the trial loop body has run
\* at least once, so portfolioReturn has been assigned before any output
\* reads it; and outside benchmarking, Monte Carlo and JSON mode the printed
\* probabilityOfLoss, lowQuantile and highQuantile are the values the last
\* trial assigned, never unassigned locals.
C11_PrintedValuesAssigned ==
    /\ (Accepted /\ AfterLoop) =>
           /\ NumberOfTrials >= 1
           /\ Len(trials) >= 1
           /\ portfolioReturn # Uninit
           /\ HumanReadableStatistics =>
                  /\ StatisticsCallCount(trials[Len(trials)].calls) = 3
                  /\ probabilityOfLoss # Uninit
                  /\ lowQuantile # Uninit
                  /\ highQuantile # Uninit
    /\ stdout # << >> =>
           /\ stdout[1].portfolioReturn = portfolioReturn
           /\ HumanReadableStatistics =>
                  /\ Len(stdout) >= 4
                  /\ stdout[2] = [kind |-> "probabilityOfLoss",
                                  value |-> probabilityOfLoss]
                  /\ stdout[3] = [kind |-> "lowQuantile",
                                  value |-> lowQuantile]
                  /\ stdout[4] = [kind |-> "highQuantile",
                                  value |-> highQuantile]

\* a finished run with no mode option at all: one trial, and the four lines
\* of the human-readable printout
C11_Witness ==
    /\ HumanReadableStatistics
    /\ ~arguments.common.isTimingEnabled
    /\ NumberOfTrials = 1
    /\ Len(trials) = 1
    /\ Len(stdout) = 4
    /\ stdout[2].value = probabilityOfLoss
    /\ pc = "exit"
    /\ exitCode = EXIT_SUCCESS

\* the state of a buffer after one more operation on it: malloc of a buffer
\* not yet allocated, writes and reads of an allocated one, one free of an
\* allocated one; anything else is a fault, and a fault stays
HeapStep(state, op) ==
    IF state = "unset" /\ op = "malloc" THEN "allocated"
    ELSE IF state = "allocated" /\ op \in {"write", "read"} THEN "allocated"
    ELSE IF state = "allocated" /\ op = "free" THEN "freed"
    ELSE "fault"

RECURSIVE HeapStateFrom(_, _, _, _)
\* the state of `buffer` after the events k .. Len(log) of log, from `state`
HeapStateFrom(log, buffer, k, state) ==
    IF k > Len(log) THEN state
    ELSE HeapStateFrom(log, buffer, k + 1,
             IF log[k].buffer = buffer THEN HeapStep(state, log[k].op)
             ELSE state)

\* the state of `buffer` after every operation logged so far
HeapState(buffer) == HeapStateFrom(heapLog, buffer, 1, "unset")

\* the positions in the log of the operations `op` on `buffer`
HeapEventsOf(op, buffer) ==
    {k \in 1 .. Len(heapLog) : heapLog[k] = HeapEvent(op, buffer)}

\* C12: in every accepted run, under every mode combination, each buffer
\* goes unset -> allocated -> freed with every write and read in between:
\* investmentReturns is allocated before the first trial and freed exactly
\* once, after its last read; monteCarloOutputSamples is allocated if and
\* only if Monte Carlo mode is set, is written, read and freed only when
\* allocated, is freed exactly once, and its last read (the persistence
\* call) comes before the free.
C12_BufferLifecycle ==
    Accepted =>
        /\ HeapState("investmentReturns") = investmentReturnsPtr
        /\ HeapState("monteCarloOutputSamples") = monteCarloOutputSamplesPtr
        /\ investmentReturnsPtr = "unset" <=> pc = "allocate"
        /\ monteCarloOutputSamplesPtr = "unset" <=>
               (pc = "allocate" \/ ~arguments.common.isMonteCarloMode)
        /\ ~arguments.common.isMonteCarloMode =>
               \A k \in 1 .. Len(heapLog) :
                   heapLog[k].buffer = "investmentReturns"
        /\ Len(trials) = NumberOfTrials =>
               /\ Cardinality(HeapEventsOf("write", "investmentReturns")) =
                      NumberOfTrials
               /\ Cardinality(HeapEventsOf("read", "investmentReturns")) =
                      NumberOfTrials
        /\ \A buffer \in {"investmentReturns", "monteCarloOutputSamples"} :
               \A k \in HeapEventsOf("write", buffer)
                          \cup HeapEventsOf("read", buffer) :
                   /\ \E m \in HeapEventsOf("malloc", buffer) : m < k
                   /\ \A f \in HeapEventsOf("free", buffer) : k < f
        /\ pc \in {"saveMonteCarloData", "return", "exit"} =>
               /\ investmentReturnsPtr = "freed"
               /\ Cardinality(HeapEventsOf("free", "investmentReturns")) = 1
        /\ pc \in {"return", "exit"} =>
               /\ monteCarloOutputSamplesPtr =
                      IF arguments.common.isMonteCarloMode
                      THEN "freed" ELSE "unset"
               /\ Cardinality(HeapEventsOf("free",
                      "monteCarloOutputSamples")) =
                      IF arguments.common.isMonteCarloMode THEN 1 ELSE 0
               /\ arguments.common.isMonteCarloMode =>
                      /\ heapLog[Len(heapLog)] =
                             HeapEvent("free", "monteCarloOutputSamples")
                      /\ heapLog[Len(heapLog) - 1] =
                             HeapEvent("read", "monteCarloOutputSamples")
                      /\ dataDotOut # << >>

\* a finished Monte Carlo run of three trials: both buffers allocated, the
\* sample buffer written three times and read twice, both freed
C12_Witness ==
    /\ Accepted
    /\ arguments.common.isMonteCarloMode
    /\ NumberOfTrials = 3
    /\ Cardinality(HeapEventsOf("write", "monteCarloOutputSamples")) = 3
    /\ Cardinality(HeapEventsOf("read", "monteCarloOutputSamples")) = 2
    /\ HeapState("investmentReturns") = "freed"
    /\ HeapState("monteCarloOutputSamples") = "freed"
    /\ pc = "exit"

====
